---- MODULE Spec2Model ----
(***************************************************************************)
(* Model of src/powermate/powermate.py: the Powermate controller, its      *)
(* construction and process-exit release of the hid handle, the observer   *)
(* list, and the polling threads started by watch().                       *)
(***************************************************************************)
EXTENDS Integers, Sequences, FiniteSets, TLC

(* ------------------------------ bounds -------------------------------- *)
\* longest observer list explored
MaxCallbacks == 2
\* longest argument list given to __command
MaxArgs == 6

(* ----------------------------- constants ------------------------------ *)
\* self.__button_state = None  (unknown); raw states are bytes 0..255
Unknown == -1
\* _REPORT_LENGTH
REPORT_LENGTH == 9
\* the command codes _SET_STATIC_BRIGHTNESS, _SET_PULSE_ASLEEP,
\* _SET_PULSE_AWAKE and _SET_PULSE_MODE
SET_STATIC_BRIGHTNESS == 1
SET_PULSE_ASLEEP == 2
SET_PULSE_AWAKE == 3
SET_PULSE_MODE == 4

\* the threads that calls of watch() start: two calls are explored
Pollers == {1, 2}
\* the callables a caller may register
CallbackIds == {"cbA", "cbB"}
\* the input reports <<byte 0, byte 1>> the device is made to produce:
\* released/pressed (1 or 2), wheel still, turned by +5 and by 0x81
Reports == {<<0, 0>>, <<1, 5>>, <<1, 0>>, <<0, 129>>, <<2, 0>>}
NoReport == <<0, 0>>
\* what a callback invocation can do: return, or raise
Outcomes == {"ok", "ValueError", "IOError", "Exception"}
\* what dev.read can do: time out, return a report, or raise
ReadKinds == {"nodata", "data", "IOError", "ValueError"}

VARIABLES
    phase,              \* position in __init__: "new", "opened", "ready", "failed"
    handle,             \* self.__dev: "none", "open", "closed"
    atexit_registered,  \* atexit.register(lambda: dev.close()) was executed
    closes,             \* number of dev.close() calls on the handle
    exited,             \* the process has exited (atexit handlers have run)
    stop_flag,          \* the stop flag of the specification (absent from the code)
    button_state,       \* self.__button_state
    callbacks,          \* self.__callbacks
    pc,                 \* per polling thread: position in __watch
    res,                \* per polling thread: what dev.read gave (data)
    idx,                \* per polling thread: list iterator position in notify
    out,                \* per polling thread: events passed to notify for the current report
    snap,               \* per polling thread: self.__callbacks when the current notify began
    called,             \* per polling thread: callbacks called so far by the current notify
    touched,            \* per polling thread: callbacks registered or removed during the current notify
    mutby,              \* per polling thread: who did that: "caller", "own" callback, "peer" thread
    pressed,            \* a Button(Down) event has been passed to notify
    last_button,        \* direction of the last Button event passed to notify, or "none"
    caller_io,          \* the hid call the caller's thread is inside: "idle", "send", "get"
    caller_exc,         \* exception the caller's last call raised, or "none"
    accessor,           \* the property whose getter or setter the caller is running
    request,            \* the buffer given to send_feature_report
    feature,            \* the feature report the transport holds (what a read serves back)
    lastset,            \* the last property set and the value given to its setter
    result              \* the last property read and the value its getter returned

vars == <<phase, handle, atexit_registered, closes, exited, stop_flag,
          button_state, callbacks, pc, res, idx, out,
          snap, called, touched, mutby, pressed, last_button,
          caller_io, caller_exc, accessor, request, feature, lastset, result>>

lifecycle == <<phase, handle, atexit_registered, closes, exited>>
notifyrec == <<snap, called, touched, mutby, pressed>>
poller == <<pc, res, idx, out>>
access == <<caller_io, caller_exc, accessor, request, feature, lastset, result>>

NoRes == [kind |-> "none", data |-> NoReport]

(* --------------------------- pure helpers ----------------------------- *)
\* (self._BUTTON, self._DOWN if button_state else self._UP)
ButtonEvent(b0) == <<"button", IF b0 # 0 THEN "down" ELSE "up">>

\* if wheel_delta & 0x80: wheel_delta -= 256
WheelDelta(b1) == IF (b1 \div 128) % 2 = 1 THEN b1 - 256 ELSE b1

\* (self._WHEEL, wheel_delta)
WheelEvent(b1) == <<"wheel", WheelDelta(b1)>>

\* a comparison that takes the unknown state for a released button
ButtonChanged_UnknownIsUp(b0, remembered) ==
    b0 # (IF remembered = Unknown THEN 0 ELSE remembered)

\* a level-triggered test: the button is reported whenever it is pressed
ButtonChanged_Level(b0, remembered) == b0 # 0

\* if button_state != self.__button_state
ButtonChanged(b0, remembered) == b0 # remembered

\* if wheel_delta > 0
WheelMoved(b1) == b1 > 0

\* except clauses that swallow the device-gone signal like any other error
AfterException_SwallowAll(x) == "read"

\* except clauses that return on IOError as they do on ValueError
AfterException_IOErrorStops(x) ==
    IF x \in {"ValueError", "IOError"} THEN "stopped" ELSE "read"

\* the except clauses of __watch: where the loop goes when x is raised in the try
AfterException(x) ==
    CASE x = "ValueError" -> "stopped"
      [] x = "IOError"    -> "read"
      [] OTHER            -> "read"

Running(t) == pc[t] \notin {"unstarted", "stopped"}
InNotify(t) == pc[t] \in {"notifyB", "notifyW"}
Usable == phase = "ready" /\ ~exited

(* ------------------------------- Init --------------------------------- *)
\* what the transport serves before anything is written: _REPORT_LENGTH zeros
BlankReport == [k \in 1..REPORT_LENGTH |-> 0]

Init ==
    /\ phase = "new"
    /\ handle = "none"
    /\ atexit_registered = FALSE
    /\ closes = 0
    /\ exited = FALSE
    /\ stop_flag = FALSE
    /\ button_state = Unknown
    /\ callbacks = <<>>
    /\ pc = [t \in Pollers |-> "unstarted"]
    /\ res = [t \in Pollers |-> NoRes]
    /\ idx = [t \in Pollers |-> 0]
    /\ out = [t \in Pollers |-> <<>>]
    /\ snap = [t \in Pollers |-> <<>>]
    /\ called = [t \in Pollers |-> <<>>]
    /\ touched = [t \in Pollers |-> {}]
    /\ mutby = [t \in Pollers |-> {}]
    /\ pressed = FALSE
    /\ last_button = "none"
    /\ caller_io = "idle"
    /\ caller_exc = "none"
    /\ accessor = "none"
    /\ request = <<>>
    /\ feature = BlankReport
    /\ lastset = <<"none", <<>>>>
    /\ result = <<"none", 0>>

(* --------------------------- construction ----------------------------- *)
\* __init__, lines 41-47: the fields are set and the device is opened, or
\* open raises and __init__ raises "Could not find the PowerMate"
Open ==
    /\ phase = "new" /\ ~exited
    /\ \E ok \in BOOLEAN :
          IF ok THEN phase' = "opened" /\ handle' = "open"
                ELSE phase' = "failed" /\ handle' = handle
    /\ UNCHANGED <<atexit_registered, closes, exited, stop_flag,
                   button_state, callbacks, poller, last_button, access>>

\* __init__, lines 49-54: the strings are fetched, the device is made
\* non-blocking and the close is registered with atexit; a call that raises
\* before line 54 leaves __init__ with nothing registered
Setup ==
    /\ phase = "opened" /\ ~exited
    /\ \E ok \in BOOLEAN :
          IF ok THEN phase' = "ready" /\ atexit_registered' = TRUE
                ELSE phase' = "failed" /\ atexit_registered' = atexit_registered
    /\ UNCHANGED <<handle, closes, exited, stop_flag, button_state, callbacks,
                   poller, last_button, access>>

\* process exit: the atexit handlers run (line 54's lambda closes the device)
ProcessExit ==
    /\ ~exited
    /\ phase \in {"ready", "failed"}
    /\ exited' = TRUE
    /\ IF atexit_registered
          THEN handle' = "closed" /\ closes' = closes + 1
          ELSE UNCHANGED <<handle, closes>>
    /\ UNCHANGED <<phase, atexit_registered, stop_flag, button_state, callbacks,
                   poller, last_button, access>>

(* ----------------------------- observers ------------------------------ *)
\* list.remove: the list without its first entry equal to c
RemoveFirst(s, c) ==
    LET i == CHOOSE k \in 1..Len(s) : s[k] = c /\ \A j \in 1..(k - 1) : s[j] # c
    IN  [k \in 1..(Len(s) - 1) |-> IF k < i THEN s[k] ELSE s[k + 1]]

\* callback in self.__callbacks
Registered(s, c) == \E k \in 1..Len(s) : s[k] = c

\* the list after register_callback(c)
Appended(s, c) == Append(s, c)

\* a remove with no membership test: list.remove raises ValueError when c is absent
Removal_Unguarded(s, c) ==
    IF Registered(s, c) THEN [list |-> RemoveFirst(s, c), exc |-> "none"]
                        ELSE [list |-> s, exc |-> "ValueError"]

\* unregister_callback(c), lines 139-140: the list it leaves and what it raises
Removal(s, c) ==
    IF Registered(s, c) THEN [list |-> RemoveFirst(s, c), exc |-> "none"]
                        ELSE [list |-> s, exc |-> "none"]

\* self.__callbacks.append(callback)
RegisterCallback(c) ==
    /\ Usable /\ caller_io = "idle"
    /\ Len(callbacks) < MaxCallbacks
    /\ callbacks' = Appended(callbacks, c)
    /\ caller_exc' = "none"
    /\ UNCHANGED <<lifecycle, stop_flag, button_state, poller,
                   last_button, caller_io, accessor, request, feature, lastset, result>>

\* if callback in self.__callbacks: self.__callbacks.remove(callback)
UnregisterCallback(c) ==
    /\ Usable /\ caller_io = "idle"
    /\ callbacks' = Removal(callbacks, c).list
    /\ caller_exc' = Removal(callbacks, c).exc
    /\ UNCHANGED <<lifecycle, stop_flag, button_state, poller,
                   last_button, caller_io, accessor, request, feature, lastset, result>>

(* ------------------------------ polling ------------------------------- *)
\* watch(): a new daemon thread running __watch is started
Watch ==
    /\ Usable /\ caller_io = "idle"
    /\ \E t \in Pollers :
          /\ pc[t] = "unstarted"
          /\ \A u \in Pollers : u < t => pc[u] # "unstarted"
          /\ pc' = [pc EXCEPT ![t] = "read"]
    /\ UNCHANGED <<lifecycle, stop_flag, button_state, callbacks, res, idx, out,
                   last_button, access>>

\* the owner asks the loop to stop, as the specification describes it;
\* nothing in __watch reads the request
RequestStop ==
    /\ Usable /\ caller_io = "idle"
    /\ ~stop_flag
    /\ stop_flag' = TRUE
    /\ UNCHANGED <<lifecycle, button_state, callbacks, poller, last_button, access>>

\* line 161: the thread enters self.__dev.read(60, timeout_ms=100)
ReadCall(t) ==
    /\ ~exited
    /\ pc[t] = "read"
    /\ pc' = [pc EXCEPT ![t] = "reading"]
    /\ UNCHANGED <<lifecycle, stop_flag, button_state, callbacks, res, idx, out,
                   last_button, access>>

\* line 161: data = self.__dev.read(60, timeout_ms=100) returns or raises
Read(t) ==
    /\ ~exited
    /\ pc[t] = "reading"
    /\ \E k \in ReadKinds, d \in Reports :
          /\ k # "data" => d = NoReport
          /\ res' = [res EXCEPT ![t] = [kind |-> k, data |-> d]]
    /\ pc' = [pc EXCEPT ![t] = "got"]
    /\ UNCHANGED <<lifecycle, stop_flag, button_state, callbacks, idx, out,
                   last_button, access>>

\* lines 152-156 of __parse_event for the report of thread t: where the
\* thread is and what it has passed to notify once the wheel byte is examined
WheelPart(t, sofar) ==
    LET b1 == res[t].data[2]
    IN  IF WheelMoved(b1)
           THEN /\ pc' = [pc EXCEPT ![t] = "notifyW"]
                /\ idx' = [idx EXCEPT ![t] = 1]
                /\ out' = [out EXCEPT ![t] = Append(sofar, WheelEvent(b1))]
                /\ res' = res
           ELSE /\ pc' = [pc EXCEPT ![t] = "read"]
                /\ idx' = [idx EXCEPT ![t] = 0]
                /\ out' = [out EXCEPT ![t] = <<>>]
                /\ res' = [res EXCEPT ![t] = NoRes]

\* the thread leaves the try block with exception x (lines 164-169): it
\* returns from __watch or starts the next turn of the while loop
Leave(t, x) ==
    /\ pc' = [pc EXCEPT ![t] = AfterException(x)]
    /\ idx' = [idx EXCEPT ![t] = 0]
    /\ out' = [out EXCEPT ![t] = <<>>]
    /\ res' = IF AfterException(x) = "stopped" THEN res ELSE [res EXCEPT ![t] = NoRes]

\* lines 162-169 after the read: an exception is handled, no data loops, and
\* data enters __parse_event (lines 147-150: compare, remember, notify)
Handle(t) ==
    /\ ~exited
    /\ pc[t] = "got"
    /\ UNCHANGED <<lifecycle, stop_flag, callbacks, access>>
    /\ CASE res[t].kind \in {"IOError", "ValueError"} ->
              /\ Leave(t, res[t].kind)
              /\ UNCHANGED <<button_state, last_button>>
         [] res[t].kind = "nodata" ->
              /\ pc' = [pc EXCEPT ![t] = "read"]
              /\ res' = [res EXCEPT ![t] = NoRes]
              /\ UNCHANGED <<button_state, last_button, idx, out>>
         [] OTHER ->
              LET b0 == res[t].data[1]
              IN  IF ButtonChanged(b0, button_state)
                     THEN /\ button_state' = b0
                          /\ pc' = [pc EXCEPT ![t] = "notifyB"]
                          /\ idx' = [idx EXCEPT ![t] = 1]
                          /\ out' = [out EXCEPT ![t] = <<ButtonEvent(b0)>>]
                          /\ last_button' = ButtonEvent(b0)[2]
                          /\ res' = res
                     ELSE /\ UNCHANGED <<button_state, last_button>>
                          /\ WheelPart(t, <<>>)

\* what a callback does to the observer list while it runs: nothing, or a
\* call of register_callback or unregister_callback
Reentries ==
    {<<"none", "">>} \cup {<<op, c>> : op \in {"register", "unregister"}, c \in CallbackIds}

\* notify, lines 143-144: one turn of the for loop. The iterator yields the
\* next entry and the callback is called with the event; it returns (after
\* changing the observer list, or not) or raises. When the list is exhausted
\* notify returns to __parse_event.
NotifyStep(t) ==
    /\ ~exited
    /\ InNotify(t)
    /\ UNCHANGED <<lifecycle, stop_flag, button_state, last_button, access>>
    /\ IF idx[t] <= Len(callbacks)
          THEN \E o \in Outcomes :
                  IF o = "ok"
                     THEN \E m \in Reentries :
                             LET after == CASE m[1] = "register"   -> Appended(callbacks, m[2])
                                            [] m[1] = "unregister" -> Removal(callbacks, m[2]).list
                                            [] OTHER               -> callbacks
                             IN  /\ Len(after) <= MaxCallbacks
                                 /\ m[1] # "none" => after # callbacks
                                 /\ callbacks' = after
                                 /\ idx' = [idx EXCEPT ![t] = idx[t] + 1]
                                 /\ UNCHANGED <<pc, res, out>>
                     ELSE Leave(t, o) /\ UNCHANGED callbacks
          ELSE /\ UNCHANGED callbacks
               /\ IF pc[t] = "notifyB"
                     THEN WheelPart(t, out[t])
                     ELSE /\ pc' = [pc EXCEPT ![t] = "read"]
                          /\ idx' = [idx EXCEPT ![t] = 0]
                          /\ out' = [out EXCEPT ![t] = <<>>]
                          /\ res' = [res EXCEPT ![t] = NoRes]

PollerStep(t) == ReadCall(t) \/ Read(t) \/ Handle(t) \/ NotifyStep(t)

(* ----------------------- commands and properties ----------------------- *)
\* the values given to the brightness setter, and the truth values given to
\* the pulsing setters (True is 1)
Brightnesses == {0, 100, 255}
Truths == {0, 1}
\* the values given to the pulse_speed setter: (table, mode, speed), and a
\* tuple of the wrong length
SpeedValues == {<<1, 1, 0>>, <<0, 16, 7>>, <<2, 32, 3>>, <<1, 48, 2>>, <<1, 1>>}
\* the argument lists given to __command directly: 1, 2, ... n
ArgLists == {[k \in 1..n |-> k] : n \in 0..MaxArgs}

\* report[i] & (1 << n), as a truth value
Bit(b, n) == (b \div (2 ^ n)) % 2 = 1

\* line 57: featureReport = [0x41, 1, command, 0, 0, 0, 0, 0]
FeatureReport(command) == <<65, 1, command, 0, 0, 0, 0, 0>>

\* lines 58-59: featureReport[i + 3] = int(args[i]) raises IndexError past the end
Fits(args) == \A i \in 0..(Len(args) - 1) : i + 3 < Len(FeatureReport(0))

\* lines 57-59: the buffer __command gives to send_feature_report
Encoded(command, args) ==
    [k \in 1..Len(FeatureReport(command)) |->
        IF k - 1 >= 3 /\ k - 1 - 3 < Len(args) THEN args[k - 1 - 3 + 1]
                                               ELSE FeatureReport(command)[k]]

\* a getter that reads the byte after the reserved parameter
DecodeBrightness_Index4(report) == report[4 + 1]

\* line 70: return report[3]
DecodeBrightness(report) == report[3 + 1]

\* line 83: return True if (report[4] & 0x01) else False
DecodePulsing(report) == IF Bit(report[4 + 1], 0) THEN 1 ELSE 0

\* line 97: return True if (report[4] & 0x04) else False
DecodePulsingWhenAsleep(report) == IF Bit(report[4 + 1], 2) THEN 1 ELSE 0

\* line 133: return report[0]
DecodeButtonState(report) == report[0 + 1]

\* a slow regime that is one off: 255 - speed
DecodePulseSpeed_SlowOffByOne(report) ==
    IF Bit(report[4 + 1], 5) THEN report[5 + 1] + 255
    ELSE IF Bit(report[4 + 1], 4) THEN 255
    ELSE 255 - report[5 + 1]

\* lines 110-117: speed = report[5]; 0x20: speed += 255; 0x10: 255; else 254 - speed
DecodePulseSpeed(report) ==
    IF Bit(report[4 + 1], 5) THEN report[5 + 1] + 255
    ELSE IF Bit(report[4 + 1], 4) THEN 255
    ELSE 254 - report[5 + 1]

\* what the getter of property p returns for the report read
Decoded(p, report) ==
    CASE p = "brightness"          -> DecodeBrightness(report)
      [] p = "pulsing"             -> DecodePulsing(report)
      [] p = "pulsing_when_asleep" -> DecodePulsingWhenAsleep(report)
      [] p = "pulse_speed"         -> DecodePulseSpeed(report)
      [] p = "button_state"        -> DecodeButtonState(report)

\* the properties with a getter
Properties == {"brightness", "pulsing", "pulsing_when_asleep", "pulse_speed", "button_state"}

\* the transport of the scenarios: it serves back the report last written,
\* at most length bytes of it
Served(stored, length) ==
    SubSeq(stored, 1, IF Len(stored) < length THEN Len(stored) ELSE length)

\* __command(command, *args) called for property p given value v: the buffer
\* is built and send_feature_report is entered, or the build raises
Command(p, v, command, args) ==
    /\ Usable /\ caller_io = "idle"
    /\ accessor' = p
    /\ lastset' = <<p, v>>
    /\ result' = <<"none", 0>>
    /\ IF Fits(args)
          THEN /\ request' = Encoded(command, args)
               /\ caller_io' = "send"
               /\ caller_exc' = "none"
          ELSE /\ caller_exc' = "IndexError"
               /\ UNCHANGED <<request, caller_io>>
    /\ UNCHANGED <<feature, lifecycle, stop_flag, button_state, callbacks, poller, last_button>>

\* lines 72-78: self.__command(self._SET_STATIC_BRIGHTNESS, 0, int(brightness))
SetBrightness(v) == Command("brightness", <<v>>, SET_STATIC_BRIGHTNESS, <<0, v>>)

\* lines 85-92: self.__command(self._SET_PULSE_AWAKE, 0, 1 if pulse else 0)
SetPulsing(b) == Command("pulsing", <<b>>, SET_PULSE_AWAKE, <<0, IF b # 0 THEN 1 ELSE 0>>)

\* lines 99-105: self.__command(self._SET_PULSE_ASLEEP, 0, 1 if pulse else 0)
SetPulsingWhenAsleep(b) ==
    Command("pulsing_when_asleep", <<b>>, SET_PULSE_ASLEEP, <<0, IF b # 0 THEN 1 ELSE 0>>)

\* lines 119-128: assert a 3-tuple; table, mode, speed = value; __command(4, ...)
SetPulseSpeed(value) ==
    IF Len(value) = 3
       THEN Command("pulse_speed", value, SET_PULSE_MODE, <<value[1], value[2], value[3]>>)
       ELSE /\ Usable /\ caller_io = "idle"
            /\ caller_exc' = "AssertionError"
            /\ accessor' = "pulse_speed"
            /\ UNCHANGED <<caller_io, request, feature, lastset, result,
                           lifecycle, stop_flag, button_state, callbacks, poller, last_button>>

\* __command called with a command code and an argument list of any length
RawCommand(command, args) == Command("command", <<command>> \o args, command, args)

\* line 60: send_feature_report returns: the transport holds the report written
SendReturn ==
    /\ ~exited
    /\ caller_io = "send"
    /\ caller_io' = "idle"
    /\ feature' = request
    /\ UNCHANGED <<caller_exc, accessor, request, lastset, result,
                   lifecycle, stop_flag, button_state, callbacks, poller, last_button>>

\* lines 62-64: a getter enters get_feature_report(_REPORT_ID, _REPORT_LENGTH)
GetCall(p) ==
    /\ Usable /\ caller_io = "idle"
    /\ caller_io' = "get"
    /\ accessor' = p
    /\ caller_exc' = "none"
    /\ UNCHANGED <<request, feature, lastset, result,
                   lifecycle, stop_flag, button_state, callbacks, poller, last_button>>

\* the getter decodes the report it was served and returns
GetReturn ==
    /\ ~exited
    /\ caller_io = "get"
    /\ caller_io' = "idle"
    /\ result' = <<accessor, Decoded(accessor, Served(feature, REPORT_LENGTH))>>
    /\ UNCHANGED <<caller_exc, accessor, request, feature, lastset,
                   lifecycle, stop_flag, button_state, callbacks, poller, last_button>>

\* the record of the notify in progress is not kept
NoTrack == UNCHANGED notifyrec

Next ==
    \/ Open /\ NoTrack
    \/ Setup /\ NoTrack
    \/ ProcessExit /\ NoTrack
    \/ \E c \in CallbackIds : RegisterCallback(c) /\ NoTrack
    \/ \E c \in CallbackIds : UnregisterCallback(c) /\ NoTrack
    \/ Watch /\ NoTrack
    \/ RequestStop /\ NoTrack
    \/ \E t \in Pollers : ReadCall(t) /\ NoTrack
    \/ \E t \in Pollers : Read(t) /\ NoTrack
    \/ \E t \in Pollers : Handle(t) /\ NoTrack
    \/ \E t \in Pollers : NotifyStep(t) /\ NoTrack

Spec == Init /\ [][Next]_vars

\* the threads are scheduled: a polling thread that can step eventually does
FairSpec == Spec /\ \A t \in Pollers : WF_vars(PollerStep(t) /\ NoTrack)

(* ------------------- the notify in progress, recorded ------------------ *)
\* how many entries of the list s are the callable c
Count(s, c) == Cardinality({k \in 1..Len(s) : s[k] = c})

\* thread t enters notify (line 150 or line 156) in this step
NotifyBegins(t) == pc'[t] \in {"notifyB", "notifyW"} /\ pc'[t] # pc[t]

\* thread t leaves the notify it is in: the loop is exhausted or a callback raised
NotifyEnds(t) == InNotify(t) /\ pc'[t] # pc[t]

\* the for loop of thread t called a callback, which returned
CallReturned(t) == InNotify(t) /\ pc'[t] = pc[t] /\ idx'[t] = idx[t] + 1

\* whose step changed the observer list, as thread t sees it
Mutator(t) ==
    IF idx'[t] # idx[t] THEN "own"
    ELSE IF \E u \in Pollers : idx'[u] # idx[u] THEN "peer"
    ELSE "caller"

\* a record is kept of each notify in progress: the list it started from, the
\* callbacks it has called, and the changes made to the list meanwhile
Track ==
    /\ snap' = [t \in Pollers |->
                  IF NotifyBegins(t) THEN callbacks'
                  ELSE IF NotifyEnds(t) THEN <<>>
                  ELSE snap[t]]
    /\ called' = [t \in Pollers |->
                  IF NotifyBegins(t) \/ NotifyEnds(t) THEN <<>>
                  ELSE IF CallReturned(t) THEN Append(called[t], callbacks[idx[t]])
                  ELSE called[t]]
    /\ touched' = [t \in Pollers |->
                  IF NotifyBegins(t) \/ NotifyEnds(t) \/ ~InNotify(t) THEN {}
                  ELSE touched[t] \cup {c \in CallbackIds : Count(callbacks', c) # Count(callbacks, c)}]
    /\ mutby' = [t \in Pollers |->
                  IF NotifyBegins(t) \/ NotifyEnds(t) \/ ~InNotify(t) THEN {}
                  ELSE IF callbacks' # callbacks THEN mutby[t] \cup {Mutator(t)}
                  ELSE mutby[t]]
    /\ pressed' = (pressed \/ \E t \in Pollers :
                                 /\ pc[t] = "got" /\ pc'[t] = "notifyB"
                                 /\ out'[t] = <<ButtonEvent(1)>>)

\* watch() is called once
WatchOnce == Watch /\ \A t \in Pollers : pc[t] = "unstarted"

\* one controller, one polling thread, its observers: every notify is recorded
NextObservers ==
    \/ Open /\ Track
    \/ Setup /\ Track
    \/ \E c \in CallbackIds : RegisterCallback(c) /\ Track
    \/ \E c \in CallbackIds : UnregisterCallback(c) /\ Track
    \/ WatchOnce /\ Track
    \/ \E t \in Pollers : ReadCall(t) /\ Track
    \/ \E t \in Pollers : Read(t) /\ Track
    \/ \E t \in Pollers : Handle(t) /\ Track
    \/ \E t \in Pollers : NotifyStep(t) /\ Track

SpecObservers == Init /\ [][NextObservers]_vars

(* ------------------------- the caller alone --------------------------- *)
\* a constructed controller whose properties are set and read over the
\* transport that serves back what was written; no polling thread
NextCodec ==
    \/ Open /\ NoTrack
    \/ Setup /\ NoTrack
    \/ \E v \in Brightnesses : SetBrightness(v) /\ NoTrack
    \/ \E b \in Truths : SetPulsing(b) /\ NoTrack
    \/ \E b \in Truths : SetPulsingWhenAsleep(b) /\ NoTrack
    \/ \E value \in SpeedValues : SetPulseSpeed(value) /\ NoTrack
    \/ \E command \in SET_STATIC_BRIGHTNESS..SET_PULSE_MODE, args \in ArgLists : RawCommand(command, args) /\ NoTrack
    \/ SendReturn /\ NoTrack
    \/ \E p \in Properties : GetCall(p) /\ NoTrack
    \/ GetReturn /\ NoTrack

SpecCodec == Init /\ [][NextCodec]_vars

(* ------------------ the caller and a polling thread -------------------- *)
\* a controller with one polling thread whose caller sets and reads properties
NextIO ==
    \/ Open /\ NoTrack
    \/ Setup /\ NoTrack
    \/ WatchOnce /\ NoTrack
    \/ \E t \in Pollers : ReadCall(t) /\ NoTrack
    \/ \E t \in Pollers : Read(t) /\ NoTrack
    \/ \E t \in Pollers : Handle(t) /\ NoTrack
    \/ \E t \in Pollers : NotifyStep(t) /\ NoTrack
    \/ \E v \in Brightnesses : SetBrightness(v) /\ NoTrack
    \/ SendReturn /\ NoTrack
    \/ \E p \in Properties : GetCall(p) /\ NoTrack
    \/ GetReturn /\ NoTrack

SpecIO == Init /\ [][NextIO]_vars

(* ============================== claims ================================ *)
\* thread t took a step of its own
Stepped(t) == <<pc[t], res[t], idx[t], out[t]>> # <<pc'[t], res'[t], idx'[t], out'[t]>>

\* thread t ends the processing of the report it read
EndsReport(t) ==
    /\ pc[t] \in {"got", "notifyB", "notifyW"}
    /\ res[t].kind = "data"
    /\ pc'[t] \in {"read", "stopped"}

HasKind(events, k) == \E i \in 1..Len(events) : events[i][1] = k

\* C1 (observer isolation): while callbacks registered after the current one
\* remain, a step of the notifying thread - whether the current callback
\* returns or raises - keeps it in the same notify with the same event and
\* moves it on to the next callback.
C1_ObserverIsolation ==
    [][\A t \in Pollers :
          (InNotify(t) /\ idx[t] < Len(callbacks) /\ Stepped(t))
             => /\ pc'[t] = pc[t]
                /\ out'[t] = out[t]
                /\ idx'[t] = idx[t] + 1]_vars

\* C2 (a callback failure never stops the polling loop): a thread that is
\* notifying callbacks is never moved to Stopped, whatever a callback raises.
C2_CallbackNeverStopsLoop ==
    [][\A t \in Pollers : InNotify(t) => pc'[t] # "stopped"]_vars

C4_PerReportEvents ==
    [][\A t \in Pollers :
          EndsReport(t) =>
             /\ Len(out[t]) <= 2
             /\ (res[t].data[2] # 0) <=> HasKind(out[t], "wheel")
             /\ \A i, j \in 1..Len(out[t]) :
                   (out[t][i][1] = "button" /\ out[t][j][1] = "wheel") => i < j]_vars

\* C5 (wheel decoding): when a thread ends the processing of a report with
\* byte 1 = b, a Wheel event was delivered iff b is nonzero; its delta is b
\* below 0x80 and b - 256 from 0x80 on, never 0 and within -128..127.
C5_WheelDecoding ==
    [][\A t \in Pollers :
          EndsReport(t) =>
             LET b == res[t].data[2]
                 wheels == {i \in 1..Len(out[t]) : out[t][i][1] = "wheel"}
             IN  /\ (b # 0) <=> (wheels # {})
                 /\ \A i \in wheels :
                       /\ out[t][i][2] = IF b < 128 THEN b ELSE b - 256
                       /\ out[t][i][2] # 0
                       /\ out[t][i][2] \in -128..127]_vars

\* C6 (device-gone termination): a read that raised the device-gone signal
\* moves the thread to Stopped with no event passed to notify and no callback
\* called; a Stopped thread stays Stopped, reads nothing and notifies nothing.
C6_DeviceGoneStops ==
    [][\A t \in Pollers :
          /\ (pc[t] = "got" /\ res[t].kind = "ValueError" /\ Stepped(t)) =>
                /\ pc'[t] = "stopped"
                /\ out'[t] = <<>> /\ idx'[t] = 0
                /\ button_state' = button_state
                /\ callbacks' = callbacks
          /\ pc[t] = "stopped" =>
                /\ pc'[t] = "stopped"
                /\ ~Stepped(t)
                /\ out[t] = <<>> /\ idx[t] = 0]_vars

\* C6 witness: a thread stopped on the device-gone signal of its read.
C6_Witness ==
    \E t \in Pollers : pc[t] = "stopped" /\ res[t].kind = "ValueError"

\* C7 (idle and transient reads): after a read that timed out with no data or
\* raised a recoverable I/O error the thread goes back to reading, still
\* Running, with no event passed to notify, no callback called, and the
\* remembered button state and the observer list unchanged.
C7_IdleAndTransient ==
    [][\A t \in Pollers :
          (pc[t] = "got" /\ res[t].kind \in {"nodata", "IOError"} /\ Stepped(t)) =>
             /\ pc'[t] = "read"
             /\ out'[t] = <<>> /\ idx'[t] = 0
             /\ button_state' = button_state
             /\ callbacks' = callbacks]_vars

\* C7 witness: the read of a running thread has raised the recoverable I/O
\* error while a button state is remembered and callbacks are registered.
C7_Witness ==
    \E t \in Pollers :
        /\ pc[t] = "got" /\ res[t].kind = "IOError"
        /\ button_state # Unknown /\ Len(callbacks) > 0

\* C8 (cooperative shutdown): once the owner has set the stop flag, every
\* running polling thread eventually exits, with no device error needed.
C8_CooperativeShutdown ==
    \A t \in Pollers :
        (stop_flag /\ Running(t)) ~> (~Running(t) \/ exited)

\* C9 (handle release): the handle is never closed twice, and once the
\* process has exited a handle that was opened has been closed exactly once.
C9_HandleReleasedOnce ==
    /\ closes <= 1
    /\ (exited /\ handle # "none") => (handle = "closed" /\ closes = 1)

\* C10 (single poller): at most one polling thread is Running at a time.
C10_SinglePoller ==
    Cardinality({t \in Pollers : Running(t)}) <= 1

\* the callbacks the notify of thread t has invoked when it ends, the one
\* that raises included
Invoked(t) ==
    IF idx[t] <= Len(callbacks) THEN Append(called[t], callbacks[idx[t]]) ELSE called[t]

\* C11 (notification order): a notify during which nobody changed the
\* observer list has, when it ends, invoked the callbacks of the list once per
\* entry and in the order of registration, all with the event it was given.
C11_NotificationOrder ==
    [][\A t \in Pollers :
          (NotifyEnds(t) /\ mutby[t] = {} /\ snap[t] = callbacks) =>
              Invoked(t) = callbacks]_vars

C18_ButtonEventsAlternate ==
    [][\A t \in Pollers :
          (pc[t] = "got" /\ pc'[t] = "notifyB") =>
              out'[t][1][2] # last_button]_vars

\* C20 (first report from Unknown): a report handled while the remembered
\* state is Unknown always passes a Button event to notify, Up when byte 0 is
\* 0 and Down otherwise, and the remembered state becomes byte 0; once it is
\* not Unknown it never is again.
C20_FirstReportFromUnknown ==
    [][/\ \A t \in Pollers :
             (pc[t] = "got" /\ res[t].kind = "data" /\ Stepped(t) /\ button_state = Unknown) =>
                 /\ pc'[t] = "notifyB" /\ idx'[t] = 1
                 /\ out'[t] = << <<"button", IF res[t].data[1] = 0 THEN "up" ELSE "down">> >>
                 /\ button_state' = res[t].data[1]
       /\ button_state # Unknown => button_state' # Unknown]_vars

\* C20 witness: the first report had byte 0 = 0: Button(Up) is being
\* delivered to a registered callback though no Button(Down) ever was.
C20_Witness ==
    \E t \in Pollers :
        /\ pc[t] = "notifyB" /\ idx[t] = 1 /\ callbacks # <<>>
        /\ res[t].data[1] = 0
        /\ out[t] = << <<"button", "up">> >>
        /\ ~pressed /\ last_button = "up"
        /\ button_state = 0

\* the notify of thread t returns to __parse_event: its for loop is exhausted
NotifyReturns(t) == NotifyEnds(t) /\ idx[t] > Len(callbacks)

\* C16 (observer-list serialization): when only the caller's thread changed
\* the observer list while a notify ran, the notify has, when it returns,
\* invoked every callback that was in the list from its start to its end
\* exactly as often as it was registered: none skipped, none invoked twice.
C16_ListSerialization ==
    [][\A t \in Pollers :
          (NotifyReturns(t) /\ mutby[t] \subseteq {"caller"}) =>
              \A c \in CallbackIds \ touched[t] :
                  Count(called[t], c) = Count(snap[t], c)]_vars

\* C19 (re-entrant observer mutation): when only the callbacks being invoked
\* changed the observer list, the notify has, when it returns, invoked once
\* per entry every callback that was registered at its start and that no call
\* removed or added, and has invoked no callback that was not registered at
\* its start.
C19_ReentrantMutation ==
    [][\A t \in Pollers :
          (NotifyReturns(t) /\ mutby[t] = {"own"}) =>
              /\ \A c \in CallbackIds \ touched[t] :
                    Count(called[t], c) = Count(snap[t], c)
              /\ \A c \in CallbackIds :
                    Count(snap[t], c) = 0 => Count(called[t], c) = 0]_vars

\* the caller has set property p to value v and then read p
SetThenRead(p, v) == lastset = <<p, v>> /\ result[1] = p /\ caller_io = "idle"

C15_CommandLayout ==
    (caller_io = "send" /\ accessor = "command") =>
        LET command == lastset[2][1]
            args == Tail(lastset[2])
        IN  Len(args) <= 5 =>
               /\ Len(request) = 9
               /\ SubSeq(request, 1, 4) = <<0, 65, 1, command>>
               /\ \A k \in 1..5 :
                     request[4 + k] = IF k <= Len(args) THEN args[k] ELSE 0

\* the calls in progress on the device handle: the reads of the polling
\* threads and the feature-report call of the caller's thread
InProgress ==
    Cardinality({t \in Pollers : pc[t] = "reading"})
        + (IF caller_io \in {"send", "get"} THEN 1 ELSE 0)

\* C17 (handle-level mutual exclusion): at no time are two calls in progress
\* on the device handle: a read of the polling thread never overlaps a
\* send_feature_report or get_feature_report of the caller's thread.
C17_HandleExclusion == InProgress <= 1

====
